---- MODULE Spec2Model ----
(***************************************************************************)
(* Model of safety_limits_interface/soft_joint_limits_interface.h:         *)
(* the three limit-enforcing handles (position with soft limits, effort    *)
(* with soft limits, velocity saturation) and the JointLimitsInterface     *)
(* that keeps one handle per joint and enforces all of them once per       *)
(* control cycle.                                                          *)
(*                                                                         *)
(* The doubles of the source are modelled on an integer grid: positions,   *)
(* velocities, efforts, gains and periods are integers, so every product   *)
(* and sum of the laws is exact.  Rounding of doubles is not modelled.     *)
(***************************************************************************)
EXTENDS Integers, Sequences, FiniteSets

VARIABLES
    handleType,  \* HandleType of the JointLimitsInterface instantiation
    joints,      \* per joint: what the JointHandle reads and writes
    registry,    \* resource_map_: joint name -> handle, or NoHandle
    made,        \* the handle the last constructor call produced, or NoHandle
    err,         \* what the last constructor call threw, or "none"
    last         \* the last operation and the locals of the calls it made

vars == <<handleType, joints, registry, made, err, last>>

----------------------------------------------------------------------------
(* Bounds of the model *)

MaxPos == 4
MaxVel == 1
MaxCmd == 5
MaxPeriod == 2

PosRange == -MaxPos..MaxPos
VelRange == -MaxVel..MaxVel
CmdRange == -MaxCmd..MaxCmd
PeriodRange == 1..MaxPeriod    \* enforceLimits requires period.toSec() > 0

Names == {"j1", "j2"}
NameOrder == <<"j1", "j2">>    \* iteration order of the name-keyed map
NoJoint == "nojoint"
NoHandle == [mode |-> "none"]
Modes == {"position", "effort", "velocity"}
Exception == "SafetyLimitsInterfaceException"

----------------------------------------------------------------------------
(* Limit data *)

Limits(hasPos, hasVel, hasEff, mv, me, lo, hi) ==
    [has_position_limits |-> hasPos, has_velocity_limits |-> hasVel,
     has_effort_limits |-> hasEff, max_velocity |-> mv, max_effort |-> me,
     min_position |-> lo, max_position |-> hi]

Soft(kp, kv, lo, hi) ==
    [k_position |-> kp, k_velocity |-> kv, min_position |-> lo, max_position |-> hi]

NoSoft == Soft(0, 0, 0, 0)

Min(a, b) == IF a < b THEN a ELSE b
Max(a, b) == IF a < b THEN b ELSE a

----------------------------------------------------------------------------
(* internal::saturate *)

(* Variant: the two clamps applied in the other order *)
saturateLowLast(val, min_val, max_val) == Max(Min(val, max_val), min_val)

saturate(val, min_val, max_val) == Min(Max(val, min_val), max_val)

----------------------------------------------------------------------------
(* The velocity bounds shared by the position and the effort law *)

(* Variant: the proportional term left unsaturated *)
SoftMinVelUnsaturated(h, pos) ==
    IF h.limits.has_position_limits
    THEN -h.soft.k_position * (pos - h.soft.min_position)
    ELSE -h.limits.max_velocity

SoftMinVel(h, pos) ==
    IF h.limits.has_position_limits
    THEN saturate(-h.soft.k_position * (pos - h.soft.min_position),
                  -h.limits.max_velocity, h.limits.max_velocity)
    ELSE -h.limits.max_velocity

(* Variant: the default upper bound with the wrong sign *)
SoftMaxVelNegated(h, pos) == -h.limits.max_velocity

(* Variant: the upper bound taken from the soft minimum *)
SoftMaxVelFromMin(h, pos) ==
    IF h.limits.has_position_limits
    THEN saturate(-h.soft.k_position * (pos - h.soft.min_position),
                  -h.limits.max_velocity, h.limits.max_velocity)
    ELSE h.limits.max_velocity

SoftMaxVel(h, pos) ==
    IF h.limits.has_position_limits
    THEN saturate(-h.soft.k_position * (pos - h.soft.max_position),
                  -h.limits.max_velocity, h.limits.max_velocity)
    ELSE h.limits.max_velocity

(* The hard position limits applied to the projected position bounds *)
HardPosLow(h, pos_low) ==
    IF h.limits.has_position_limits THEN Max(pos_low, h.limits.min_position) ELSE pos_low

HardPosHigh(h, pos_high) ==
    IF h.limits.has_position_limits THEN Min(pos_high, h.limits.max_position) ELSE pos_high

(* Variant: the bounds projected from the pending command, not the position *)
PositionEnforceFromCommand(h, js, dt) ==
    LET pos == js.cmd
        soft_min_vel == SoftMinVel(h, pos)
        soft_max_vel == SoftMaxVel(h, pos)
        pos_low == HardPosLow(h, pos + soft_min_vel * dt)
        pos_high == HardPosHigh(h, pos + soft_max_vel * dt)
    IN [mode |-> "position", name |-> h.jh, period |-> dt,
        pos |-> pos, vel |-> js.vel, cmd |-> js.cmd,
        soft_min_vel |-> soft_min_vel, soft_max_vel |-> soft_max_vel,
        low |-> pos_low, high |-> pos_high,
        out |-> saturate(js.cmd, pos_low, pos_high)]

(* PositionJointSoftLimitsHandle::enforceLimits: the locals of one call,   *)
(* for a period with period.toSec() > 0 (asserted by the code)             *)
PositionEnforce(h, js, dt) ==
    LET pos == js.pos
        soft_min_vel == SoftMinVel(h, pos)
        soft_max_vel == SoftMaxVel(h, pos)
        pos_low == HardPosLow(h, pos + soft_min_vel * dt)
        pos_high == HardPosHigh(h, pos + soft_max_vel * dt)
    IN [mode |-> "position", name |-> h.jh, period |-> dt,
        pos |-> pos, vel |-> js.vel, cmd |-> js.cmd,
        soft_min_vel |-> soft_min_vel, soft_max_vel |-> soft_max_vel,
        low |-> pos_low, high |-> pos_high,
        out |-> saturate(js.cmd, pos_low, pos_high)]

(* EffortJointSoftLimitsHandle::enforceLimits: the period is not read *)
EffortEnforce(h, js, dt) ==
    LET pos == js.pos
        vel == js.vel
        soft_min_vel == SoftMinVel(h, pos)
        soft_max_vel == SoftMaxVel(h, pos)
        soft_min_eff == saturate(-h.soft.k_velocity * (vel - soft_min_vel),
                                 -h.limits.max_effort, h.limits.max_effort)
        soft_max_eff == saturate(-h.soft.k_velocity * (vel - soft_max_vel),
                                 -h.limits.max_effort, h.limits.max_effort)
    IN [mode |-> "effort", name |-> h.jh, period |-> dt,
        pos |-> pos, vel |-> vel, cmd |-> js.cmd,
        soft_min_vel |-> soft_min_vel, soft_max_vel |-> soft_max_vel,
        low |-> soft_min_eff, high |-> soft_max_eff,
        out |-> saturate(js.cmd, soft_min_eff, soft_max_eff)]

(* Variant: the velocity limit scaled by the period *)
VelocityEnforcePerPeriod(h, js, dt) ==
    [mode |-> "velocity", name |-> h.jh, period |-> dt,
     pos |-> js.pos, vel |-> js.vel, cmd |-> js.cmd,
     low |-> -h.limits.max_velocity * dt, high |-> h.limits.max_velocity * dt,
     out |-> saturate(js.cmd, -h.limits.max_velocity * dt, h.limits.max_velocity * dt)]

(* VelocityJointSaturationHandle::enforceLimits: only the command is read *)
VelocityEnforce(h, js, dt) ==
    [mode |-> "velocity", name |-> h.jh, period |-> dt,
     pos |-> js.pos, vel |-> js.vel, cmd |-> js.cmd,
     low |-> -h.limits.max_velocity, high |-> h.limits.max_velocity,
     out |-> saturate(js.cmd, -h.limits.max_velocity, h.limits.max_velocity)]

(* it->second.enforceLimits(period) of the instantiated interface *)
HandleEnforce(h, js, dt) ==
    CASE h.mode = "position" -> PositionEnforce(h, js, dt)
      [] h.mode = "effort" -> EffortEnforce(h, js, dt)
      [] h.mode = "velocity" -> VelocityEnforce(h, js, dt)

----------------------------------------------------------------------------
(* Constructors: the result is what was thrown and the handle produced *)

Built(mode, jh, limits, soft) ==
    [thrown |-> "none",
     handle |-> [mode |-> mode, jh |-> jh, limits |-> limits, soft |-> soft]]

Thrown == [thrown |-> Exception, handle |-> NoHandle]

PositionCtor(jh, limits, soft) ==
    IF ~limits.has_velocity_limits THEN Thrown
    ELSE Built("position", jh, limits, soft)

(* Variant: the effort check left out *)
EffortCtorVelocityOnly(jh, limits, soft) ==
    IF ~limits.has_velocity_limits THEN Thrown
    ELSE Built("effort", jh, limits, soft)

EffortCtor(jh, limits, soft) ==
    IF ~limits.has_velocity_limits THEN Thrown
    ELSE IF ~limits.has_effort_limits THEN Thrown
    ELSE Built("effort", jh, limits, soft)

VelocityCtor(jh, limits) ==
    IF ~limits.has_velocity_limits THEN Thrown
    ELSE Built("velocity", jh, limits, NoSoft)

(* The public default constructors check nothing and bind no joint *)
DefaultCtor(mode, limits) == Built(mode, NoJoint, limits, NoSoft)

(* limits_ of a default-constructed handle: JointLimits is declared outside *)
(* this file, so each needed flag may or may not be set                    *)
DefaultLimits == {Limits(FALSE, hv, he, 0, 0, 0, 0) : hv \in BOOLEAN, he \in BOOLEAN}

----------------------------------------------------------------------------
(* JointLimitsInterface<HandleType>::enforceLimits *)

(* Variant: the iteration starting one past begin() *)
RegisteredButFirst(reg) ==
    LET all == SelectSeq(NameOrder, LAMBDA n : reg[n] # NoHandle)
    IN IF all = <<>> THEN all ELSE Tail(all)

Registered(reg) == SelectSeq(NameOrder, LAMBDA n : reg[n] # NoHandle)

RECURSIVE EnforceEach(_, _, _, _, _)
EnforceEach(order, reg, js, dt, calls) ==
    IF order = <<>> THEN [joints |-> js, calls |-> calls]
    ELSE LET n == Head(order)
             rec == HandleEnforce(reg[n], js[n], dt)
         IN EnforceEach(Tail(order), reg, [js EXCEPT ![n].cmd = rec.out], dt,
                        Append(calls, rec))

EnforceAll(reg, js, dt) == EnforceEach(Registered(reg), reg, js, dt, <<>>)

----------------------------------------------------------------------------
(* Actions *)

ConstructPosition(n, limits, soft) ==
    LET r == PositionCtor(n, limits, soft) IN
    /\ made' = r.handle
    /\ err' = r.thrown
    /\ last' = [op |-> "construct", mode |-> "position", limits |-> limits]
    /\ UNCHANGED <<handleType, joints, registry>>

ConstructEffort(n, limits, soft) ==
    LET r == EffortCtor(n, limits, soft) IN
    /\ made' = r.handle
    /\ err' = r.thrown
    /\ last' = [op |-> "construct", mode |-> "effort", limits |-> limits]
    /\ UNCHANGED <<handleType, joints, registry>>

ConstructVelocity(n, limits) ==
    LET r == VelocityCtor(n, limits) IN
    /\ made' = r.handle
    /\ err' = r.thrown
    /\ last' = [op |-> "construct", mode |-> "velocity", limits |-> limits]
    /\ UNCHANGED <<handleType, joints, registry>>

DefaultConstruct(mode, limits) ==
    LET r == DefaultCtor(mode, limits) IN
    /\ made' = r.handle
    /\ err' = r.thrown
    /\ last' = [op |-> "default", mode |-> mode, limits |-> limits]
    /\ UNCHANGED <<handleType, joints, registry>>

(* registerHandle of the resource manager: one handle per joint name *)
RegisterHandle ==
    /\ made # NoHandle
    /\ made.mode = handleType
    /\ made.jh \in Names
    /\ registry[made.jh] = NoHandle
    /\ registry' = [registry EXCEPT ![made.jh] = made]
    /\ last' = [op |-> "register", name |-> made.jh]
    /\ UNCHANGED <<handleType, joints, made, err>>

(* JointLimitsInterface::getHandle: a copy of the registered handle, or the *)
(* resource manager's std::logic_error rethrown as the package's exception *)
GetHandle(n) ==
    /\ made' = registry[n]
    /\ err' = IF registry[n] = NoHandle THEN Exception ELSE "none"
    /\ last' = [op |-> "getHandle", name |-> n]
    /\ UNCHANGED <<handleType, joints, registry>>

(* The controller writes a command through the joint handle *)
SetCommand(n, c) ==
    /\ joints[n].cmd # c
    /\ joints' = [joints EXCEPT ![n].cmd = c]
    /\ last' = [op |-> "setCommand", name |-> n]
    /\ UNCHANGED <<handleType, registry, made, err>>

(* The hardware updates the joint state the handle reads *)
SensorPosition(n, p) ==
    /\ joints[n].pos # p
    /\ joints' = [joints EXCEPT ![n].pos = p]
    /\ last' = [op |-> "read", name |-> n]
    /\ UNCHANGED <<handleType, registry, made, err>>

SensorVelocity(n, v) ==
    /\ joints[n].vel # v
    /\ joints' = [joints EXCEPT ![n].vel = v]
    /\ last' = [op |-> "read", name |-> n]
    /\ UNCHANGED <<handleType, registry, made, err>>

RegistryEnforceLimits(period) ==
    LET r == EnforceAll(registry, joints, period) IN
    /\ joints' = r.joints
    /\ last' = [op |-> "enforceLimits", period |-> period, calls |-> r.calls,
                before |-> joints,
                repeat |-> (last.op = "enforceLimits" /\ last.period = period)]
    /\ UNCHANGED <<handleType, registry, made, err>>

----------------------------------------------------------------------------
(* Spec: setting up an interface of one handle type and ticking it *)

SetupLimits == {Limits(TRUE, hv, he, 1, 1, -1, 1) : hv \in BOOLEAN, he \in BOOLEAN}

SetupSoft == {Soft(1, 1, -1, 1)}

SetupCmds == {MaxCmd}

RestJoint == [pos |-> 0, vel |-> 0, cmd |-> 0]

Init ==
    /\ handleType \in Modes
    /\ joints = [n \in Names |-> RestJoint]
    /\ registry = [n \in Names |-> NoHandle]
    /\ made = NoHandle
    /\ err = "none"
    /\ last = [op |-> "none"]

Next ==
    \/ \E n \in Names, l \in SetupLimits, s \in SetupSoft : ConstructPosition(n, l, s)
    \/ \E n \in Names, l \in SetupLimits, s \in SetupSoft : ConstructEffort(n, l, s)
    \/ \E n \in Names, l \in SetupLimits : ConstructVelocity(n, l)
    \/ \E m \in Modes, l \in DefaultLimits : DefaultConstruct(m, l)
    \/ RegisterHandle
    \/ \E n \in Names : GetHandle(n)
    \/ \E n \in Names, c \in SetupCmds : SetCommand(n, c)
    \/ \E dt \in PeriodRange : RegistryEnforceLimits(dt)

Spec == Init /\ [][Next]_vars

----------------------------------------------------------------------------
(* SpecLaw: one registered handle, every limit configuration, every joint  *)
(* state and command                                                       *)

LawName == "j1"

LawLimits ==
    {Limits(hp, hv, he, mv, IF he THEN 2 ELSE 0, IF hp THEN -2 ELSE 0, IF hp THEN 2 ELSE 0) :
        hp \in BOOLEAN, hv \in BOOLEAN, he \in BOOLEAN, mv \in 0..2}

(* Soft bands inside, above and below the hard band [-2, 2] *)
SoftBands == {<<-1, 1>>, <<3, 4>>, <<-4, -3>>}

(* Without position limits the soft band and k_position are never read *)
LawSoft(l, gains) ==
    IF l.has_position_limits
    THEN {Soft(kp, kv, b[1], b[2]) : kp \in 0..2, kv \in gains, b \in SoftBands}
    ELSE {Soft(1, kv, -1, 1) : kv \in gains}

LawHandles ==
    LET results ==
            UNION {{PositionCtor(LawName, l, s) : s \in LawSoft(l, {0})} :
                        l \in {x \in LawLimits : ~x.has_effort_limits}}
            \cup UNION {{EffortCtor(LawName, l, s) : s \in LawSoft(l, {0, 1})} : l \in LawLimits}
            \cup {VelocityCtor(LawName, l) : l \in LawLimits}
    IN {r.handle : r \in {x \in results : x.thrown = "none"}}

InitLaw ==
    /\ \E h \in LawHandles :
          /\ handleType = h.mode
          /\ registry = [n \in Names |-> IF n = LawName THEN h ELSE NoHandle]
    /\ joints = [n \in Names |-> RestJoint]
    /\ made = NoHandle
    /\ err = "none"
    /\ last = [op |-> "none"]

NextLaw ==
    \/ \E c \in CmdRange : SetCommand(LawName, c)
    \/ \E p \in PosRange : SensorPosition(LawName, p)
    \/ \E v \in VelRange : SensorVelocity(LawName, v)
    \/ \E dt \in PeriodRange : RegistryEnforceLimits(dt)

SpecLaw == InitLaw /\ [][NextLaw]_vars

----------------------------------------------------------------------------
(* What the claims read *)

Calls ==
    IF last.op = "enforceLimits" THEN {last.calls[i] : i \in 1..Len(last.calls)} ELSE {}

PositionCalls == {rec \in Calls : rec.mode = "position"}

SoftVelCalls == {rec \in Calls : rec.mode \in {"position", "effort"}}

HandleOf(rec) == registry[rec.name]

Abs(x) == IF x < 0 THEN -x ELSE x

Clamp(c, lo, hi) == IF c < lo THEN lo ELSE IF c > hi THEN hi ELSE c

----------------------------------------------------------------------------
(* C1: in position mode with hard position limits, the command written by *)
(* enforceLimits lies in [limits.min_position, limits.max_position] for    *)
(* every position, command, soft band and period.                          *)
C1_HardBandDominates ==
    \A rec \in PositionCalls :
        HandleOf(rec).limits.has_position_limits =>
            /\ HandleOf(rec).limits.min_position <= rec.out
            /\ rec.out <= HandleOf(rec).limits.max_position

(* C2: the command written by a call lies within the bounds computed in    *)
(* that call: low <= result <= high in every mode.                         *)
C2_WithinComputedBounds ==
    \A rec \in Calls : rec.low <= rec.out /\ rec.out <= rec.high

(* C2, as amended: the written command never exceeds the computed upper   *)
(* bound; it is at least the computed lower bound whenever the lower bound *)
(* does not exceed the upper bound, and equals the upper bound otherwise.  *)
C2_UpperBoundAlwaysLowerWhenOrdered ==
    \A rec \in Calls :
        /\ rec.out <= rec.high
        /\ rec.low <= rec.high => rec.low <= rec.out
        /\ rec.low > rec.high => rec.out = rec.high

C2_Witness ==
    \E rec \in PositionCalls : rec.low > rec.high /\ rec.cmd > rec.low

(* C3: in position mode with max_velocity = 1 and no position limits, a    *)
(* pending command of 5 yields p + 1*dt for every position p and period dt.*)
C3_ExampleAlwaysFullStep ==
    \A rec \in PositionCalls :
        (/\ ~HandleOf(rec).limits.has_position_limits
         /\ HandleOf(rec).limits.max_velocity = 1
         /\ rec.cmd = 5)
        => rec.out = rec.pos + 1 * rec.period

(* C3, as amended: the command 5 yields p + 1*dt whenever p + dt <= 5;     *)
(* when 5 is within one step of p the command 5 is written unchanged.      *)
C3_ExampleFullStepWhenOutOfReach ==
    \A rec \in PositionCalls :
        (/\ ~HandleOf(rec).limits.has_position_limits
         /\ HandleOf(rec).limits.max_velocity = 1
         /\ rec.cmd = 5)
        => /\ rec.pos + rec.period <= 5 => rec.out = rec.pos + 1 * rec.period
           /\ (rec.pos - rec.period <= 5 /\ 5 <= rec.pos + rec.period) => rec.out = 5

C3_Witness ==
    \E rec \in PositionCalls :
        /\ ~HandleOf(rec).limits.has_position_limits
        /\ HandleOf(rec).limits.max_velocity = 1
        /\ rec.cmd = 5
        /\ rec.pos + rec.period < 5
        /\ rec.out = rec.pos + rec.period

(* C4: velocity mode writes exactly clamp(c, -max_velocity, max_velocity), *)
(* whatever the period, the joint position and velocity and the position   *)
(* and effort fields of the limits.                                        *)
C4_VelocitySaturationExact ==
    \A rec \in Calls :
        rec.mode = "velocity" =>
            rec.out = Clamp(rec.cmd, -HandleOf(rec).limits.max_velocity,
                            HandleOf(rec).limits.max_velocity)

C4_Witness ==
    \E rec \in Calls :
        /\ rec.mode = "velocity"
        /\ HandleOf(rec).limits.max_velocity = 2
        /\ HandleOf(rec).limits.has_position_limits
        /\ HandleOf(rec).limits.has_effort_limits
        /\ rec.period > 1
        /\ rec.pos # 0
        /\ rec.cmd < -2
        /\ rec.out = -2

----------------------------------------------------------------------------
(* What the constructors require *)

MissingLimits(mode, limits) ==
    \/ ~limits.has_velocity_limits
    \/ mode = "effort" /\ ~limits.has_effort_limits

Obtained == {h \in {made} \cup {registry[n] : n \in Names} : h # NoHandle}

(* C5: construction from limit data throws exactly when a limit category   *)
(* the mode needs is absent (velocity for all modes, effort for effort     *)
(* mode), produces no handle when it throws and a handle otherwise.        *)
C5_ConstructionFailsIffMissing ==
    last.op = "construct" =>
        /\ err = Exception <=> MissingLimits(last.mode, last.limits)
        /\ err = Exception => made = NoHandle
        /\ err # Exception =>
              /\ made # NoHandle
              /\ made.mode = last.mode
              /\ made.limits = last.limits

C5_Witness ==
    /\ last.op = "construct"
    /\ last.mode = "effort"
    /\ last.limits.has_velocity_limits
    /\ ~last.limits.has_effort_limits
    /\ err = Exception
    /\ made = NoHandle

(* C6: every handle that can be obtained, whichever public constructor     *)
(* produced it, has the presence flag set for every limit its law reads.   *)
C6_EveryHandleHasNeededFlags ==
    \A h \in Obtained : ~MissingLimits(h.mode, h.limits)

(* C7: one call of the interface's enforceLimits(period) invokes the       *)
(* enforcement of every registered handle exactly once, each with the      *)
(* period passed in, invokes nothing for unregistered names, and changes   *)
(* no joint command when the registry is empty.                            *)
C7_TickInvokesEachRegisteredOnce ==
    last.op = "enforceLimits" =>
        /\ \A n \in Names :
              Cardinality({i \in 1..Len(last.calls) : last.calls[i].name = n})
                  = IF registry[n] # NoHandle THEN 1 ELSE 0
        /\ \A rec \in Calls :
              /\ rec.period = last.period
              /\ rec.cmd = last.before[rec.name].cmd
              /\ joints[rec.name].cmd = rec.out
        /\ \A n \in Names : registry[n] = NoHandle => joints[n] = last.before[n]
        /\ (\A n \in Names : registry[n] = NoHandle) => joints = last.before

C7_Witness ==
    /\ last.op = "enforceLimits"
    /\ \A n \in Names : registry[n] # NoHandle
    /\ Len(last.calls) = Cardinality(Names)
    /\ \A n \in Names : joints[n].cmd # last.before[n].cmd

----------------------------------------------------------------------------
(* C8: with position limits present, the soft velocity upper bound of the  *)
(* position and effort laws is non-increasing in p, is 0 at the soft       *)
(* maximum and negative beyond it; the lower bound is 0 at the soft        *)
(* minimum and positive below it.                                          *)
C8_SoftVelocityReverses ==
    \A rec \in SoftVelCalls :
        LET h == HandleOf(rec) IN
        h.limits.has_position_limits =>
            /\ \A p \in PosRange : p <= rec.pos => SoftMaxVel(h, p) >= rec.soft_max_vel
            /\ rec.pos = h.soft.max_position => rec.soft_max_vel = 0
            /\ rec.pos > h.soft.max_position => rec.soft_max_vel < 0
            /\ rec.pos = h.soft.min_position => rec.soft_min_vel = 0
            /\ rec.pos < h.soft.min_position => rec.soft_min_vel > 0

(* C8, as amended: the same, for k_position > 0 and max_velocity > 0.      *)
C8_SoftVelocityReversesForPositiveGain ==
    \A rec \in SoftVelCalls :
        LET h == HandleOf(rec) IN
        (/\ h.limits.has_position_limits
         /\ h.soft.k_position > 0
         /\ h.limits.max_velocity > 0) =>
            /\ \A p \in PosRange : p <= rec.pos => SoftMaxVel(h, p) >= rec.soft_max_vel
            /\ rec.pos = h.soft.max_position => rec.soft_max_vel = 0
            /\ rec.pos > h.soft.max_position => rec.soft_max_vel < 0
            /\ rec.pos = h.soft.min_position => rec.soft_min_vel = 0
            /\ rec.pos < h.soft.min_position => rec.soft_min_vel > 0

C8_Witness ==
    \E rec \in SoftVelCalls :
        /\ HandleOf(rec).limits.has_position_limits
        /\ HandleOf(rec).soft.k_position > 0
        /\ HandleOf(rec).limits.max_velocity > 0
        /\ rec.pos > HandleOf(rec).soft.max_position
        /\ rec.soft_max_vel < 0
        /\ SoftMaxVel(HandleOf(rec), HandleOf(rec).soft.max_position) = 0

(* C9: position mode never commands a step faster than the velocity limit: *)
(* |result - p| <= max_velocity * dt for every position p, inside or       *)
(* outside the hard band, every command and every positive period.         *)
C9_StepWithinVelocityLimit ==
    \A rec \in PositionCalls :
        Abs(rec.out - rec.pos) <= HandleOf(rec).limits.max_velocity * rec.period

(* C9, as amended: |result - p| <= max_velocity * dt whenever position     *)
(* limits are absent or p - max_velocity * dt <= limits.max_position; for  *)
(* a position further above the hard maximum the written command is       *)
(* limits.max_position.                                                    *)
C9_StepWithinVelocityLimitUnlessAboveHardMax ==
    \A rec \in PositionCalls :
        LET l == HandleOf(rec).limits IN
        IF ~l.has_position_limits \/ rec.pos - l.max_velocity * rec.period <= l.max_position
        THEN Abs(rec.out - rec.pos) <= l.max_velocity * rec.period
        ELSE rec.out = l.max_position

C9_Witness ==
    \E rec \in PositionCalls :
        LET l == HandleOf(rec).limits IN
        /\ l.has_position_limits
        /\ rec.pos < l.min_position
        /\ rec.cmd > rec.pos + l.max_velocity * rec.period
        /\ l.max_velocity > 0
        /\ rec.out = rec.pos + l.max_velocity * rec.period

(* C10: a second enforceLimits call with the same position, velocity and   *)
(* period leaves the command the first call wrote, in each mode, also when *)
(* the computed lower bound exceeds the computed upper bound.              *)
C10_SecondCallChangesNothing ==
    (last.op = "enforceLimits" /\ last.repeat) =>
        /\ \A rec \in Calls : rec.out = rec.cmd
        /\ joints = last.before

C10_Witness ==
    /\ last.op = "enforceLimits"
    /\ last.repeat
    /\ \E rec \in Calls : rec.low > rec.high /\ rec.out = rec.cmd

====
